---- MODULE Spec2Model ----
(***************************************************************************)
(* DNF, the IEEE-754 half/single/double conversion routines of dnf.c, and  *)
(* the callers of it in cbor_c.c.                                          *)
(*                                                                         *)
(* An unsigned C integer (unsigned short, uint32_t, unsigned long long) is *)
(* the set of the positions of its 1 bits, bit 0 being the least           *)
(* significant: 0x7C00 is 10..14, 0 is {}.  The width of the type is the   *)
(* width argument of Shl, which drops the bits shifted out at the top.     *)
(***************************************************************************)
EXTENDS Integers, FiniteSets, Sequences, TLC

\* ------------------------------------------------------------------------
\* Bit operations of C on unsigned values
\* ------------------------------------------------------------------------

Bits(lo, hi) == lo..hi                                      \* the mask with bits lo..hi set
BitAnd(a, m) == a \cap m                                    \* a & m
BitOr(a, b) == a \cup b                                     \* a | b
Shl(a, n, w) == {i + n : i \in {j \in a : j + n < w}}       \* a << n in a w-bit type
Shr(a, n) == {i - n : i \in {j \in a : j >= n}}             \* a >> n

RECURSIVE ToInt(_)
ToInt(a) ==
  IF a = {} THEN 0
  ELSE LET i == CHOOSE j \in a : TRUE IN 2^i + ToInt(a \ {i})

FromInt(n, w) == {i \in 0..(w - 1) : (n \div 2^i) % 2 = 1}

\* ------------------------------------------------------------------------
\* Program constants
\* ------------------------------------------------------------------------

\* LUA_VERSION_NUM of the Lua the modules are compiled against
VARIABLE lua
LuaVersions == {501, 503}

INT_MAX == 2147483647
EDOM == 33
ERANGE == 34
SIGABRT == 6

\* ------------------------------------------------------------------------
\* dnf.c
\* ------------------------------------------------------------------------

\* mutant: the loop shifts the fraction but forgets pv->exp--
RECURSIVE dnfi_normalize_loop_keepexp(_, _)
dnfi_normalize_loop_keepexp(pv, i) ==
  IF (i < 64) /\ (BitAnd(pv.frac, {63}) = {})
  THEN dnfi_normalize_loop_keepexp([pv EXCEPT !.frac = Shl(@, 1, 64)], i + 1)
  ELSE pv

\* the for loop of dnfi_normalize, entered with loop counter i
RECURSIVE dnfi_normalize_loop(_, _)
dnfi_normalize_loop(pv, i) ==
  IF (i < 64) /\ (BitAnd(pv.frac, {63}) = {})
  THEN dnfi_normalize_loop([pv EXCEPT !.frac = Shl(@, 1, 64), !.exp = @ - 1], i + 1)
  ELSE pv

\* mutant: the loop counter starts at 56, which leaves 8 iterations
dnfi_normalize_from56(pv) == dnfi_normalize_loop(pv, 56)

dnfi_normalize(pv) == dnfi_normalize_loop(pv, 0)

\* mutant: the loop doubles frac where it should halve it
RECURSIVE dnfi_denormalize_loop_left(_, _)
dnfi_denormalize_loop_left(pv, maxexp) ==
  IF pv.exp < maxexp
  THEN dnfi_denormalize_loop_left([pv EXCEPT !.frac = Shl(@, 1, 64), !.exp = @ + 1], maxexp)
  ELSE pv

\* the while loop of dnfi_denormalize
RECURSIVE dnfi_denormalize_loop(_, _)
dnfi_denormalize_loop(pv, maxexp) ==
  IF pv.exp < maxexp
  THEN dnfi_denormalize_loop([pv EXCEPT !.frac = Shr(@, 1), !.exp = @ + 1], maxexp)
  ELSE pv

\* asserted is the value of the assert() expression at the end
dnfi_denormalize(pv, maxexp) ==
  LET r == dnfi_denormalize_loop(pv, maxexp)
  IN  [pv |-> r, asserted |-> r.frac # {}]

\* mutant: the all-ones exponent field is not told apart from a normal one
dnf_fromhalf_noinf(h) ==
  LET pv == [sign |-> Shr(h, 15) # {},
             exp  |-> ToInt(BitAnd(Shr(h, 10), Bits(0, 4))),
             frac |-> Shl(BitAnd(h, Bits(0, 9)), 53, 64)]
  IN  IF pv.exp = 0
      THEN IF pv.frac # {}
           THEN dnfi_normalize([pv EXCEPT !.exp = -14])
           ELSE pv
      ELSE [pv EXCEPT !.exp = @ - 15, !.frac = BitOr(@, {63})]

dnf_fromhalf(h) ==
  LET pv == [sign |-> Shr(h, 15) # {},
             exp  |-> ToInt(BitAnd(Shr(h, 10), Bits(0, 4))),
             frac |-> Shl(BitAnd(h, Bits(0, 9)), 53, 64)]
  IN  IF pv.exp = 31
      THEN [pv EXCEPT !.exp = INT_MAX]
      ELSE IF pv.exp = 0
      THEN IF pv.frac # {}
           THEN dnfi_normalize([pv EXCEPT !.exp = -14])
           ELSE pv
      ELSE [pv EXCEPT !.exp = @ - 15, !.frac = BitOr(@, {63})]

\* mutant: the mantissa is shifted left by 41, not 40
dnf_fromsingle_shift41(f) ==
  LET pv == [sign |-> Shr(f, 31) # {},
             exp  |-> ToInt(BitAnd(Shr(f, 23), Bits(0, 7))),
             frac |-> Shl(BitAnd(f, Bits(0, 22)), 41, 64)]
  IN  IF pv.exp = 255
      THEN [pv EXCEPT !.exp = INT_MAX]
      ELSE IF pv.exp = 0
      THEN IF pv.frac # {}
           THEN dnfi_normalize([pv EXCEPT !.exp = -126])
           ELSE pv
      ELSE [pv EXCEPT !.exp = @ - 127, !.frac = BitOr(@, {63})]

dnf_fromsingle(f) ==
  LET pv == [sign |-> Shr(f, 31) # {},
             exp  |-> ToInt(BitAnd(Shr(f, 23), Bits(0, 7))),
             frac |-> Shl(BitAnd(f, Bits(0, 22)), 40, 64)]
  IN  IF pv.exp = 255
      THEN [pv EXCEPT !.exp = INT_MAX]
      ELSE IF pv.exp = 0
      THEN IF pv.frac # {}
           THEN dnfi_normalize([pv EXCEPT !.exp = -126])
           ELSE pv
      ELSE [pv EXCEPT !.exp = @ - 127, !.frac = BitOr(@, {63})]

\* mutant: infinity and NaN get the exponent 0, not INT_MAX
dnf_fromdouble_exp0(d) ==
  LET pv == [sign |-> Shr(d, 63) # {},
             exp  |-> ToInt(BitAnd(Shr(d, 52), Bits(0, 10))),
             frac |-> Shl(BitAnd(d, Bits(0, 51)), 11, 64)]
  IN  IF pv.exp = 2047
      THEN [pv EXCEPT !.exp = 0]
      ELSE IF pv.exp = 0
      THEN IF pv.frac # {}
           THEN dnfi_normalize([pv EXCEPT !.exp = -1022])
           ELSE pv
      ELSE [pv EXCEPT !.exp = @ - 1023, !.frac = BitOr(@, {63})]

dnf_fromdouble(d) ==
  LET pv == [sign |-> Shr(d, 63) # {},
             exp  |-> ToInt(BitAnd(Shr(d, 52), Bits(0, 10))),
             frac |-> Shl(BitAnd(d, Bits(0, 51)), 11, 64)]
  IN  IF pv.exp = 2047
      THEN [pv EXCEPT !.exp = INT_MAX]
      ELSE IF pv.exp = 0
      THEN IF pv.frac # {}
           THEN dnfi_normalize([pv EXCEPT !.exp = -1022])
           ELSE pv
      ELSE [pv EXCEPT !.exp = @ - 1023, !.frac = BitOr(@, {63})]

\* mutant: the precision mask is 0x000FFFFFFFFFFFFF, one bit short
dnf_tohalf_mask52(ph, v) ==
  LET dn == dnfi_denormalize(v, -14)
      st == IF v.exp = INT_MAX
            THEN [h |-> Bits(10, 14), v |-> v, ret |-> 0]
            ELSE IF (v.exp < -24) \/ (v.exp > 15)
            THEN [h |-> {}, v |-> v, ret |-> ERANGE]
            ELSE IF (v.exp = 0) /\ (v.frac = {})
            THEN [h |-> {}, v |-> v, ret |-> 0]
            ELSE IF v.exp < -14
            THEN [h |-> {}, v |-> dn.pv, ret |-> IF dn.asserted THEN 0 ELSE SIGABRT]
            ELSE [h |-> Shl(BitAnd(FromInt(v.exp + 15, 31), Bits(0, 4)), 10, 16),
                  v |-> v, ret |-> 0]
  IN  IF st.ret # 0
      THEN [rc |-> st.ret, out |-> ph]
      ELSE IF BitAnd(st.v.frac, Bits(0, 51)) # {}
      THEN [rc |-> EDOM, out |-> ph]
      ELSE [rc |-> 0,
            out |-> BitOr(BitOr(st.h, BitAnd(Shr(st.v.frac, 53), Bits(0, 9))),
                          IF st.v.sign THEN {15} ELSE {})]

\* mutant: the test for zero is missing
dnf_tohalf_nozero(ph, v) ==
  LET dn == dnfi_denormalize(v, -14)
      st == IF v.exp = INT_MAX
            THEN [h |-> Bits(10, 14), v |-> v, ret |-> 0]
            ELSE IF (v.exp < -24) \/ (v.exp > 15)
            THEN [h |-> {}, v |-> v, ret |-> ERANGE]
            ELSE IF v.exp < -14
            THEN [h |-> {}, v |-> dn.pv, ret |-> IF dn.asserted THEN 0 ELSE SIGABRT]
            ELSE [h |-> Shl(BitAnd(FromInt(v.exp + 15, 31), Bits(0, 4)), 10, 16),
                  v |-> v, ret |-> 0]
  IN  IF st.ret # 0
      THEN [rc |-> st.ret, out |-> ph]
      ELSE IF BitAnd(st.v.frac, Bits(0, 52)) # {}
      THEN [rc |-> EDOM, out |-> ph]
      ELSE [rc |-> 0,
            out |-> BitOr(BitOr(st.h, BitAnd(Shr(st.v.frac, 53), Bits(0, 9))),
                          IF st.v.sign THEN {15} ELSE {})]

\* ph, pf, pd: what the caller's output variable held before the call; it is
\* written only on the path that returns 0.  rc = SIGABRT stands for the
\* assert() of dnfi_denormalize stopping the process.
dnf_tohalf(ph, v) ==
  LET dn == dnfi_denormalize(v, -14)
      st == IF v.exp = INT_MAX
            THEN [h |-> Bits(10, 14), v |-> v, ret |-> 0]
            ELSE IF (v.exp < -24) \/ (v.exp > 15)
            THEN [h |-> {}, v |-> v, ret |-> ERANGE]
            ELSE IF (v.exp = 0) /\ (v.frac = {})
            THEN [h |-> {}, v |-> v, ret |-> 0]
            ELSE IF v.exp < -14
            THEN [h |-> {}, v |-> dn.pv, ret |-> IF dn.asserted THEN 0 ELSE SIGABRT]
            ELSE [h |-> Shl(BitAnd(FromInt(v.exp + 15, 31), Bits(0, 4)), 10, 16),
                  v |-> v, ret |-> 0]
  IN  IF st.ret # 0
      THEN [rc |-> st.ret, out |-> ph]
      ELSE IF BitAnd(st.v.frac, Bits(0, 52)) # {}
      THEN [rc |-> EDOM, out |-> ph]
      ELSE [rc |-> 0,
            out |-> BitOr(BitOr(st.h, BitAnd(Shr(st.v.frac, 53), Bits(0, 9))),
                          IF st.v.sign THEN {15} ELSE {})]

dnf_tosingle(pf, v) ==
  LET dn == dnfi_denormalize(v, -126)
      st == IF v.exp = INT_MAX
            THEN [f |-> Bits(23, 30), v |-> v, ret |-> 0]
            ELSE IF (v.exp < -149) \/ (v.exp > 127)
            THEN [f |-> {}, v |-> v, ret |-> ERANGE]
            ELSE IF (v.exp = 0) /\ (v.frac = {})
            THEN [f |-> {}, v |-> v, ret |-> 0]
            ELSE IF v.exp < -126
            THEN [f |-> {}, v |-> dn.pv, ret |-> IF dn.asserted THEN 0 ELSE SIGABRT]
            ELSE [f |-> Shl(BitAnd(FromInt(v.exp + 127, 31), Bits(0, 7)), 23, 32),
                  v |-> v, ret |-> 0]
  IN  IF st.ret # 0
      THEN [rc |-> st.ret, out |-> pf]
      ELSE IF BitAnd(st.v.frac, Bits(0, 39)) # {}
      THEN [rc |-> EDOM, out |-> pf]
      ELSE [rc |-> 0,
            out |-> BitOr(BitOr(st.f, BitAnd(Shr(st.v.frac, 40), Bits(0, 22))),
                          IF st.v.sign THEN {31} ELSE {})]

\* mutant: the precision is checked before the range
dnf_todouble_precfirst(pd, v) ==
  LET dn == dnfi_denormalize(v, -1022)
      st == IF v.exp = INT_MAX
            THEN [d |-> Bits(52, 62), v |-> v, ret |-> 0]
            ELSE IF BitAnd(v.frac, Bits(0, 11)) # {}
            THEN [d |-> {}, v |-> v, ret |-> EDOM]
            ELSE IF (v.exp < -1074) \/ (v.exp > 1023)
            THEN [d |-> {}, v |-> v, ret |-> ERANGE]
            ELSE IF (v.exp = 0) /\ (v.frac = {})
            THEN [d |-> {}, v |-> v, ret |-> 0]
            ELSE IF v.exp < -1022
            THEN [d |-> {}, v |-> dn.pv, ret |-> IF dn.asserted THEN 0 ELSE SIGABRT]
            ELSE [d |-> Shl(BitAnd(FromInt(v.exp + 1023, 31), Bits(0, 10)), 52, 64),
                  v |-> v, ret |-> 0]
  IN  IF st.ret # 0
      THEN [rc |-> st.ret, out |-> pd]
      ELSE IF BitAnd(st.v.frac, Bits(0, 11)) # {}
      THEN [rc |-> EDOM, out |-> pd]
      ELSE [rc |-> 0,
            out |-> BitOr(BitOr(st.d, BitAnd(Shr(st.v.frac, 11), Bits(0, 51))),
                          IF st.v.sign THEN {63} ELSE {})]

dnf_todouble(pd, v) ==
  LET dn == dnfi_denormalize(v, -1022)
      st == IF v.exp = INT_MAX
            THEN [d |-> Bits(52, 62), v |-> v, ret |-> 0]
            ELSE IF (v.exp < -1074) \/ (v.exp > 1023)
            THEN [d |-> {}, v |-> v, ret |-> ERANGE]
            ELSE IF (v.exp = 0) /\ (v.frac = {})
            THEN [d |-> {}, v |-> v, ret |-> 0]
            ELSE IF v.exp < -1022
            THEN [d |-> {}, v |-> dn.pv, ret |-> IF dn.asserted THEN 0 ELSE SIGABRT]
            ELSE [d |-> Shl(BitAnd(FromInt(v.exp + 1023, 31), Bits(0, 10)), 52, 64),
                  v |-> v, ret |-> 0]
  IN  IF st.ret # 0
      THEN [rc |-> st.ret, out |-> pd]
      ELSE IF BitAnd(st.v.frac, Bits(0, 11)) # {}
      THEN [rc |-> EDOM, out |-> pd]
      ELSE [rc |-> 0,
            out |-> BitOr(BitOr(st.d, BitAnd(Shr(st.v.frac, 11), Bits(0, 51))),
                          IF st.v.sign THEN {63} ELSE {})]

\* ------------------------------------------------------------------------
\* cbor_c.c
\* ------------------------------------------------------------------------

\* a < n for a small n, and a < 2^k
ULess(a, n) == BitAnd(a, Bits(31, 63)) = {} /\ ToInt(a) < n
ULessPow2(a, k) == BitAnd(a, Bits(k, 63)) = {}

\* (uint8_t)value
LowByte(a) == ToInt(BitAnd(a, Bits(0, 7)))

\* a Lua argument that may be absent or nil
Nil == [nil |-> TRUE, n |-> {}]
Num(a) == [nil |-> FALSE, n |-> a]

\* what a Lua C function leaves: the string it pushed, or the error it threw
Pushed(str) == [err |-> "none", blob |-> str]
Thrown(msg) == [err |-> msg, blob |-> <<>>]

\* the for loop of cbor_cL_pushvalueN: result holds the bytes stored so far
RECURSIVE cbor_cL_pushvalueN_loop(_, _, _)
cbor_cL_pushvalueN_loop(result, value, len) ==
  IF len > 0
  THEN cbor_cL_pushvalueN_loop(<<LowByte(value)>> \o result, Shr(value, 8), len - 1)
  ELSE result

cbor_cL_pushvalueN(typeinfo, value, len) ==
  Pushed(<<typeinfo % 256>> \o cbor_cL_pushvalueN_loop(<<>>, value, len))

\* mutant: 24 itself is still put into the type byte
cbor_cL_pushvalue_le24(type, value) ==
  IF ULess(value, 25)
  THEN Pushed(<<(type + ToInt(value)) % 256>>)
  ELSE IF ULessPow2(value, 8)
  THEN cbor_cL_pushvalueN(type + 24, value, 1)
  ELSE IF ULessPow2(value, 16)
  THEN cbor_cL_pushvalueN(type + 25, value, 2)
  ELSE IF ULessPow2(value, 32)
  THEN cbor_cL_pushvalueN(type + 26, value, 4)
  ELSE cbor_cL_pushvalueN(type + 27, value, 8)

cbor_cL_pushvalue(type, value) ==
  IF ULess(value, 24)
  THEN Pushed(<<(type + ToInt(value)) % 256>>)
  ELSE IF ULessPow2(value, 8)
  THEN cbor_cL_pushvalueN(type + 24, value, 1)
  ELSE IF ULessPow2(value, 16)
  THEN cbor_cL_pushvalueN(type + 25, value, 2)
  ELSE IF ULessPow2(value, 32)
  THEN cbor_cL_pushvalueN(type + 26, value, 4)
  ELSE cbor_cL_pushvalueN(type + 27, value, 8)

\* luaL_checknumber throws when the argument is not a number
BadArgument == "bad argument"

cbor_clua_encode02C(type, value) ==
  IF value.nil THEN Thrown(BadArgument) ELSE cbor_cL_pushvalue(type, value.n)

cbor_clua_encode468A(type, value) ==
  IF value.nil THEN Pushed(<<type + 31>>) ELSE cbor_cL_pushvalue(type, value.n)

cbor_clua_encodeE(type, value, value2) ==
  LET cv_ == dnf_fromdouble(value2.n)
      rh == dnf_tohalf({}, cv_)
      rs == dnf_tosingle({}, cv_)
  IN  IF value.nil
      THEN IF value2.nil
           THEN Pushed(<<type + 31>>)
           ELSE IF rh.rc = 0
           THEN cbor_cL_pushvalueN(type + 25, rh.out, 2)
           ELSE IF rh.rc = SIGABRT
           THEN Thrown("abort")
           ELSE IF rs.rc = 0
           THEN cbor_cL_pushvalueN(type + 26, rs.out, 4)
           ELSE IF rs.rc = SIGABRT
           THEN Thrown("abort")
           ELSE cbor_cL_pushvalueN(type + 27, value2.n, 8)
      ELSE IF value.n = FromInt(25, 8)
      THEN IF value2.nil
           THEN Thrown(BadArgument)
           ELSE IF rh.rc = SIGABRT
           THEN Thrown("abort")
           ELSE IF rh.rc # 0
           THEN Thrown("cannot convert to half-precision")
           ELSE cbor_cL_pushvalueN(type + 25, rh.out, 2)
      ELSE IF value.n = FromInt(26, 8)
      THEN IF value2.nil
           THEN Thrown(BadArgument)
           ELSE IF rs.rc = SIGABRT
           THEN Thrown("abort")
           ELSE IF rs.rc # 0
           THEN Thrown("cannot convert to single-preccision")
           ELSE cbor_cL_pushvalueN(type + 26, rs.out, 4)
      ELSE IF value.n = FromInt(27, 8)
      THEN IF value2.nil
           THEN Thrown(BadArgument)
           ELSE cbor_cL_pushvalueN(type + 27, value2.n, 8)
      ELSE cbor_cL_pushvalue(type, value.n)

cbor_clua_encode(type, value, value2) ==
  IF type \in {0, 32, 192}
  THEN cbor_clua_encode02C(type, value)
  ELSE IF type \in {64, 96, 128, 160}
  THEN cbor_clua_encode468A(type, value)
  ELSE IF type = 224
  THEN cbor_clua_encodeE(type, value, value2)
  ELSE Thrown("invalid type")

\* packet[pos], pos counted from 0; a Lua string is followed by a '\0'
PacketByte(packet, pos) == IF pos < Len(packet) THEN packet[pos + 1] ELSE 0

\* the for loop that reads len bytes in network byte order, at loop counter i
RECURSIVE cbor_clua_decode_read(_, _, _, _, _)
cbor_clua_decode_read(packet, pos, value, i, len) ==
  IF i < len
  THEN cbor_clua_decode_read(packet, pos + 1,
         BitOr(Shl(value, 8, 64), FromInt(PacketByte(packet, pos + 1), 8)), i + 1, len)
  ELSE value

Decoded(type, info, kind, value, pos2) ==
  [err |-> "none", ctype |-> type, info |-> info, kind |-> kind, value |-> value, pos2 |-> pos2]
Failed(msg) ==
  [err |-> msg, ctype |-> 0, info |-> 0, kind |-> "none", value |-> {}, pos2 |-> 0]

\* lua_pushinteger of an unsigned long long: the conversion to the signed
\* lua_Integer wraps, and a value with bit 63 set arrives as the negative
\* number whose magnitude is its two's complement
lua_pushinteger(value) ==
  IF 63 \in value
  THEN LET l == CHOOSE i \in value : \A j \in value : i <= j
       IN  [kind |-> "negative", bits |-> {l} \cup {i \in (l + 1)..63 : i \notin value}]
  ELSE [kind |-> "integer", bits |-> value]

\* lua_pushnumber of an unsigned long long: the conversion to double keeps 53
\* significant bits and rounds to nearest, ties to even
lua_pushnumber(value) ==
  IF value = {} THEN [kind |-> "integer", bits |-> {}]
  ELSE
  LET h == CHOOSE i \in value : \A j \in value : j <= i
      cut == h - 52
      kept == {i \in value : i >= cut}
      rest == {i \in value : i < cut}
      up == (cut - 1) \in rest /\ (rest # {cut - 1} \/ cut \in value)
      q == CHOOSE i \in cut..(h + 1) : i \notin kept /\ \A j \in cut..(i - 1) : j \in kept
  IN  [kind |-> "integer",
       bits |-> IF up THEN {i \in kept : i > q} \cup {q} ELSE kept]

\* The return code of dnf_todouble is ignored: when it is not 0, d was never
\* written and the number pushed is indeterminate.
Widened(type, info, r, pos2) ==
  IF r.rc = SIGABRT THEN Failed("abort")
  ELSE IF r.rc # 0 THEN Decoded(type, info, "indeterminate", {}, pos2)
  ELSE Decoded(type, info, "double", r.out, pos2)

\* the 1-based positions of the bytes of packet that a call reads: packet[pos]
\* once pos has passed the "no input" test, and the len bytes after it once
\* the "no more input" test has passed
cbor_clua_decode_reads(packet, pos1) ==
  LET packlen == Len(packet)
      pos == pos1 - 1
      info == PacketByte(packet, pos) % 32
      len == CASE info = 24 -> 1 [] info = 25 -> 2 [] info = 26 -> 4 [] info = 27 -> 8
  IN  IF pos < 0 \/ pos > packlen
      THEN {}
      ELSE IF info \notin 24..27 \/ pos + len + 1 > packlen
      THEN {pos1}
      ELSE pos1..(pos1 + len)

\* pos1 is the Lua argument pos; kind tells an integer value ("integer" with
\* its bits, "negative" with the bits of its magnitude) from a double, a
\* double being given by its bit pattern, and "huge" is HUGE_VAL
cbor_clua_decode(packet, pos1) ==
  LET packlen == Len(packet)
      pos == pos1 - 1
      type == (PacketByte(packet, pos) \div 32) * 32
      info == PacketByte(packet, pos) % 32
      len == CASE info = 24 -> 1 [] info = 25 -> 2 [] info = 26 -> 4 [] info = 27 -> 8
      value == cbor_clua_decode_read(packet, pos, {}, 0, len)
  IN  IF pos < 0 \/ pos > packlen
      THEN Failed("no input")
      ELSE IF info < 24
      THEN Decoded(type, info, "integer", FromInt(info, 8), pos + 2)
      ELSE IF info = 31
      THEN Decoded(type, info, "huge", {}, pos + 2)
      ELSE IF info \notin 24..27
      THEN Failed("invalid data")
      ELSE IF pos + len + 1 > packlen
      THEN Failed("no more input")
      ELSE IF (type = 224) /\ (len > 1)
      THEN IF len = 2
           THEN Widened(type, info, dnf_todouble({}, dnf_fromhalf(value)), pos + len + 2)
           ELSE IF len = 4
           THEN Widened(type, info, dnf_todouble({}, dnf_fromsingle(value)), pos + len + 2)
           ELSE Decoded(type, info, "double", value, pos + len + 2)
      ELSE LET n == IF lua < 503 THEN lua_pushnumber(value) ELSE lua_pushinteger(value)
           IN  Decoded(type, info, n.kind, n.bits, pos + len + 2)

\* ------------------------------------------------------------------------
\* Inputs
\* ------------------------------------------------------------------------

ExpRadius == 1          \* exponents this close to an edge of a format are sampled
MaxMantBits == 2        \* most 1 bits in a sampled mantissa or fraction

\* minimum subnormal, minimum normal and maximum exponent of the three formats
ExpEdges == {-1074, -1022, -149, -126, -24, -14, 0, 15, 127, 1023}
ExpSamples == UNION {(e - ExpRadius)..(e + ExpRadius) : e \in ExpEdges}

Sparse(probe) == {m \in SUBSET probe : Cardinality(m) <= MaxMantBits}

HalfInputs == SUBSET Bits(0, 15)

SingleMantProbe == {0, 1, 12, 13, 22}
SingleExpFields == {0, 255} \cup {e + 127 : e \in ExpSamples \cap (-126..127)}
SingleInputs ==
  {BitOr(BitOr(s, Shl(FromInt(e, 8), 23, 32)), m) :
     s \in {{}, {31}}, e \in SingleExpFields, m \in Sparse(SingleMantProbe)}

DoubleMantProbe == {0, 1, 11, 12, 28, 29, 41, 42, 51}
DoubleExpFields == {0, 2047} \cup {e + 1023 : e \in ExpSamples \cap (-1022..1023)}
DoubleInputs ==
  {BitOr(BitOr(s, Shl(FromInt(e, 11), 52, 64)), m) :
     s \in {{}, {63}}, e \in DoubleExpFields, m \in Sparse(DoubleMantProbe)}

\* arguments of cbor_c.encode
ValueSamples ==
  {FromInt(n, 17) : n \in {0, 23, 24, 25, 26, 27, 255, 256, 65535, 65536}}
    \cup {Bits(0, 31), {32}, {63}, Bits(11, 63)}
EncodeCalls ==
  [type : {0, 32, 64, 96, 128, 160, 192, 16},
   value : {Nil} \cup {Num(a) : a \in ValueSamples},
   value2 : {Nil}]
  \cup
  [type : {224},
   value : {Nil} \cup {Num(FromInt(n, 8)) : n \in 24..27},
   value2 : {Nil} \cup {Num(d) : d \in DoubleInputs}]

\* items of a stream of integers: one value of each encoded width
MaxItems == 2
StreamTypes == {0, 32, 192}
StreamValues == {FromInt(23, 8), FromInt(24, 8), {8}, {16}, {32}, {63}}

\* a dnf__s the caller fills in itself: the struct is public (dnf.h)
FracProbe == {0, 10, 11, 12, 39, 40, 52, 53, 62, 63}
ValueInputs ==
  [sign : BOOLEAN, exp : ExpSamples \cup {INT_MAX}, frac : Sparse(FracProbe)]

\* ------------------------------------------------------------------------
\* cbor5.c
\* ------------------------------------------------------------------------

\* the conversion of an integer expression to the char it is stored in
Char(b) == ToInt(BitAnd(b, Bits(0, 7)))

cbor5lua_packf(d) ==
  LET cv_ == dnf_fromdouble(d)
      rh == dnf_tohalf({}, cv_)
      rs == dnf_tosingle({}, cv_)
      h == rh.out
      s == rs.out
  IN  IF rh.rc = SIGABRT
      THEN Thrown("abort")
      ELSE IF rh.rc = 0
      THEN Pushed(<<249, Char(Shr(h, 8)), Char(BitAnd(h, FromInt(256, 16)))>>)
      ELSE IF rs.rc = SIGABRT
      THEN Thrown("abort")
      ELSE IF rs.rc = 0
      THEN Pushed(<<250,
                    Char(Shr(s, 24)),
                    Char(BitAnd(Shr(s, 16), FromInt(255, 8))),
                    Char(BitAnd(Shr(s, 8), FromInt(255, 8))),
                    Char(BitAnd(Shr(s, 0), FromInt(255, 8)))>>)
      ELSE Pushed(<<251,
                    Char(Shr(d, 56)),
                    Char(BitAnd(Shr(d, 48), FromInt(255, 8))),
                    Char(BitAnd(Shr(d, 40), FromInt(255, 8))),
                    Char(BitAnd(Shr(d, 32), FromInt(255, 8))),
                    Char(BitAnd(Shr(d, 24), FromInt(255, 8))),
                    Char(BitAnd(Shr(d, 16), FromInt(255, 8))),
                    Char(BitAnd(Shr(d, 8), FromInt(255, 8))),
                    Char(BitAnd(Shr(d, 0), FromInt(255, 8)))>>)

\* ------------------------------------------------------------------------
\* State: one caller converting one value
\* ------------------------------------------------------------------------

VARIABLES
  pc,     \* "start", "decomposed", "recomposed", "encoded", "decoded",
          \* "building", "reading", "packed"
  src,    \* the format the value came from: "half", "single", "double", "dnf__s"
  x,      \* the source bit pattern (src # "dnf__s")
  cv,     \* the caller's dnf__s
  tgt,    \* the format of the dnf_to* call
  rc,     \* its return code
  out,    \* the output variable of that call
  calls,  \* how many dnf_to* calls the caller has made with cv
  call,   \* the arguments of cbor_c.encode
  ret,    \* what cbor_c.encode left
  pos,    \* the pos argument of cbor_c.decode
  dec,    \* what cbor_c.decode left
  items,  \* the (type, value) pairs encoded into the stream
  stream, \* the blobs of the items, concatenated
  results, \* pos and result of each cbor_c.decode of the stream so far
  packf   \* the argument of cbor5.packf and what it left

dnf == <<src, x, cv, tgt, rc, out, calls>>
cbor == <<call, ret, pos, dec>>
seq == <<items, stream, results>>
vars == <<lua, pc, src, x, cv, tgt, rc, out, calls, call, ret, pos, dec, items, stream, results,
          packf>>

None == "none"
ZeroValue == [sign |-> FALSE, exp |-> 0, frac |-> {}]

Init ==
  /\ lua \in LuaVersions
  /\ pc = "start"
  /\ src = None
  /\ x = {}
  /\ cv = ZeroValue
  /\ tgt = None
  /\ rc = 0
  /\ out = {}
  /\ calls = 0
  /\ call = [type |-> 0, value |-> Nil, value2 |-> Nil]
  /\ ret = Pushed(<<>>)
  /\ pos = 0
  /\ dec = Failed("none")
  /\ items = <<>>
  /\ stream = <<>>
  /\ results = <<>>
  /\ packf = [d |-> {}, ret |-> Pushed(<<>>)]

FromHalf ==
  /\ pc = "start"
  /\ \E h \in HalfInputs :
       /\ x' = h
       /\ cv' = dnf_fromhalf(h)
  /\ pc' = "decomposed"
  /\ src' = "half"
  /\ UNCHANGED <<lua, tgt, rc, out, calls, cbor, seq, packf>>

FromSingle ==
  /\ pc = "start"
  /\ \E f \in SingleInputs :
       /\ x' = f
       /\ cv' = dnf_fromsingle(f)
  /\ pc' = "decomposed"
  /\ src' = "single"
  /\ UNCHANGED <<lua, tgt, rc, out, calls, cbor, seq, packf>>

FromDouble ==
  /\ pc = "start"
  /\ \E d \in DoubleInputs :
       /\ x' = d
       /\ cv' = dnf_fromdouble(d)
  /\ pc' = "decomposed"
  /\ src' = "double"
  /\ UNCHANGED <<lua, tgt, rc, out, calls, cbor, seq, packf>>

MakeValue ==
  /\ pc = "start"
  /\ \E v \in ValueInputs : cv' = v
  /\ pc' = "decomposed"
  /\ src' = "dnf__s"
  /\ UNCHANGED <<lua, x, tgt, rc, out, calls, cbor, seq, packf>>

\* A caller may go on to the next wider format when a dnf_to* call has failed,
\* as cbor_clua_encodeE and cbor5lua_packf do.  Each call has an output
\* variable of its own, which nothing has written yet, and gets cv by value:
\* what the callee does to its copy v does not reach cv.
Refused(t) == pc = "recomposed" /\ tgt = t /\ rc \in {EDOM, ERANGE}

\* mutant: dnf_tohalf gets a pointer to cv and denormalizes it in place
ToHalf_byref ==
  /\ pc = "decomposed"
  /\ pc' = "recomposed"
  /\ tgt' = "half"
  /\ calls' = calls + 1
  /\ LET r == dnf_tohalf({}, cv) IN rc' = r.rc /\ out' = r.out
  /\ cv' = IF cv.exp # INT_MAX /\ cv.exp >= -24 /\ cv.exp < -14 /\ cv.frac # {}
           THEN dnfi_denormalize(cv, -14).pv
           ELSE cv
  /\ UNCHANGED <<lua, src, x, cbor, seq, packf>>

ToHalf ==
  /\ pc = "decomposed"
  /\ pc' = "recomposed"
  /\ tgt' = "half"
  /\ calls' = calls + 1
  /\ LET r == dnf_tohalf({}, cv) IN rc' = r.rc /\ out' = r.out
  /\ UNCHANGED <<lua, src, x, cv, cbor, seq, packf>>

ToSingle ==
  /\ pc = "decomposed" \/ Refused("half")
  /\ pc' = "recomposed"
  /\ tgt' = "single"
  /\ calls' = calls + 1
  /\ LET r == dnf_tosingle({}, cv) IN rc' = r.rc /\ out' = r.out
  /\ UNCHANGED <<lua, src, x, cv, cbor, seq, packf>>

ToDouble ==
  /\ pc = "decomposed" \/ Refused("single")
  /\ pc' = "recomposed"
  /\ tgt' = "double"
  /\ calls' = calls + 1
  /\ LET r == dnf_todouble({}, cv) IN rc' = r.rc /\ out' = r.out
  /\ UNCHANGED <<lua, src, x, cv, cbor, seq, packf>>

Encode ==
  /\ pc = "start"
  /\ \E c \in EncodeCalls :
       /\ call' = c
       /\ ret' = cbor_clua_encode(c.type, c.value, c.value2)
  /\ pc' = "encoded"
  /\ UNCHANGED <<lua, dnf, pos, dec, seq, packf>>

Decode ==
  /\ pc = "encoded"
  /\ ret.err = "none"
  /\ \E p \in 0..(Len(ret.blob) + 2) :
       /\ pos' = p
       /\ dec' = cbor_clua_decode(ret.blob, p)
  /\ pc' = "decoded"
  /\ UNCHANGED <<lua, dnf, call, ret, seq, packf>>

\* the caller encodes one more integer and appends the blob to the stream
AppendItem ==
  /\ pc \in {"start", "building"}
  /\ Len(items) < MaxItems
  /\ \E t \in StreamTypes, v \in StreamValues :
       /\ items' = Append(items, [type |-> t, value |-> v])
       /\ stream' = stream \o cbor_clua_encode(t, Num(v), Nil).blob
  /\ pc' = "building"
  /\ UNCHANGED <<lua, dnf, cbor, results, packf>>

\* the caller decodes the next item, at pos 1 or at the pos2 of the last one
DecodeNext ==
  /\ pc \in {"building", "reading"}
  /\ Len(results) < Len(items)
  /\ results # <<>> => results[Len(results)].dec.err = "none"
  /\ LET p == IF results = <<>> THEN 1 ELSE results[Len(results)].dec.pos2
     IN  results' = Append(results, [pos |-> p, dec |-> cbor_clua_decode(stream, p)])
  /\ pc' = "reading"
  /\ UNCHANGED <<lua, dnf, cbor, items, stream, packf>>

\* cbor5.packf(d)
Packf ==
  /\ pc = "start"
  /\ \E d \in DoubleInputs :
       packf' = [d |-> d, ret |-> cbor5lua_packf(d)]
  /\ pc' = "packed"
  /\ UNCHANGED <<lua, dnf, cbor, seq>>

Next ==
  \/ FromHalf
  \/ FromSingle
  \/ FromDouble
  \/ MakeValue
  \/ ToHalf
  \/ ToSingle
  \/ ToDouble
  \/ Encode
  \/ Decode
  \/ AppendItem
  \/ DecodeNext
  \/ Packf

Spec == Init /\ [][Next]_vars

TypeOK ==
  /\ lua \in LuaVersions
  /\ pc \in {"start", "decomposed", "recomposed", "encoded", "decoded", "building", "reading",
            "packed"}
  /\ Len(items) <= MaxItems
  /\ Len(results) <= Len(items)
  /\ \A i \in 1..Len(ret.blob) : ret.blob[i] \in 0..255
  /\ \A i \in 1..Len(packf.ret.blob) : packf.ret.blob[i] \in 0..255
  /\ Len(packf.ret.blob) \in {0, 3, 5, 9}
  /\ rc \in {0, EDOM, ERANGE, SIGABRT}
  /\ out \subseteq Bits(0, 63)
  /\ calls \in 0..3
  /\ cv.frac \subseteq Bits(0, 63)

\* ------------------------------------------------------------------------
\* IEEE-754 binary16/32/64: the layout and meaning of a bit pattern
\* ------------------------------------------------------------------------

Formats == {"half", "single", "double"}
MantWidth(fmt) == CASE fmt = "half" -> 10 [] fmt = "single" -> 23 [] fmt = "double" -> 52
ExpWidth(fmt) == CASE fmt = "half" -> 5 [] fmt = "single" -> 8 [] fmt = "double" -> 11
Bias(fmt) == 2^(ExpWidth(fmt) - 1) - 1
SignBit(fmt) == MantWidth(fmt) + ExpWidth(fmt)
MantField(fmt, b) == BitAnd(b, Bits(0, MantWidth(fmt) - 1))
ExpField(fmt, b) == ToInt(BitAnd(Shr(b, MantWidth(fmt)), Bits(0, ExpWidth(fmt) - 1)))
ExpOnes(fmt) == Bits(MantWidth(fmt), SignBit(fmt) - 1)
SignOf(fmt, b) == SignBit(fmt) \in b
IsInf(fmt, b) == ExpField(fmt, b) = 2^ExpWidth(fmt) - 1 /\ MantField(fmt, b) = {}
IsNaN(fmt, b) == ExpField(fmt, b) = 2^ExpWidth(fmt) - 1 /\ MantField(fmt, b) # {}
IsFinite(fmt, b) == ExpField(fmt, b) # 2^ExpWidth(fmt) - 1
IsZero(fmt, b) == ExpField(fmt, b) = 0 /\ MantField(fmt, b) = {}
IsSubnormal(fmt, b) == ExpField(fmt, b) = 0 /\ MantField(fmt, b) # {}

Lowest(a) == CHOOSE i \in a : \A j \in a : i <= j

\* The number a bit pattern denotes.  A finite non-zero pattern denotes
\* (-1)^sign * m * 2^e with m odd; m is given as the set of its 1 bits.  A NaN
\* keeps its payload, counted from the top of the mantissa field.
Denotes(fmt, b) ==
  LET mw == MantWidth(fmt)
      mf == MantField(fmt, b)
      ef == ExpField(fmt, b)
      m0 == IF ef = 0 THEN mf ELSE BitOr(mf, {mw})
      e0 == (IF ef = 0 THEN 1 ELSE ef) - Bias(fmt) - mw
  IN  IF IsInf(fmt, b) THEN [kind |-> "inf", sign |-> SignOf(fmt, b), m |-> {}, e |-> 0]
      ELSE IF IsNaN(fmt, b)
      THEN [kind |-> "nan", sign |-> SignOf(fmt, b), m |-> {mw - 1 - i : i \in mf}, e |-> 0]
      ELSE IF IsZero(fmt, b) THEN [kind |-> "zero", sign |-> SignOf(fmt, b), m |-> {}, e |-> 0]
      ELSE [kind |-> "finite", sign |-> SignOf(fmt, b), m |-> Shr(m0, Lowest(m0)),
            e |-> e0 + Lowest(m0)]

dnf_from(fmt, b) ==
  CASE fmt = "half" -> dnf_fromhalf(b)
    [] fmt = "single" -> dnf_fromsingle(b)
    [] fmt = "double" -> dnf_fromdouble(b)

Recomposed(s, t) == pc = "recomposed" /\ src = s /\ tgt = t

\* ------------------------------------------------------------------------
\* Claims
\* ------------------------------------------------------------------------

\* C1: dnf_todouble of dnf_fromdouble(x) returns 0 and writes exactly x, for
\* every double bit pattern x.
C1_DoubleRoundTrip ==
  Recomposed("double", "double") => (rc = 0 /\ out = x)

\* C3: dnf_tohalf of dnf_fromhalf(h) returns 0 and writes h for every half
\* pattern h, and dnf_tosingle of dnf_fromsingle(s) returns 0 and writes s for
\* every single pattern s.
C3_NarrowRoundTrip ==
  \A fmt \in {"half", "single"} : Recomposed(fmt, fmt) => (rc = 0 /\ out = x)

\* a negative single subnormal with two mantissa bits has made the round trip
C3_Witness ==
  /\ Recomposed("single", "single")
  /\ x = {31, 13, 0}
  /\ cv.exp < -126
  /\ out = x

\* C2: for a finite double and a narrower target, dnf_tohalf / dnf_tosingle
\* either returns EDOM or ERANGE, or returns 0 with a pattern that denotes the
\* same number as the input: the target's own dnf_from* of the output gives
\* back the same sign, exp and frac.
C2_ExactOrFail ==
  \A t \in {"half", "single"} :
    (Recomposed("double", t) /\ IsFinite("double", x)) =>
      \/ rc \in {EDOM, ERANGE}
      \/ /\ rc = 0
         /\ dnf_from(t, out) = cv
         /\ Denotes(t, out) = Denotes("double", x)

\* C4: widening never fails and keeps the value: half to single or double
\* and single to double return 0 with a pattern that denotes the same number
\* (same sign, same NaN payload from the top of the mantissa); a subnormal
\* source becomes a normal number of the wider format.
Widenings == {<<"half", "single">>, <<"half", "double">>, <<"single", "double">>}
C4_WideningLossless ==
  \A w \in Widenings :
    Recomposed(w[1], w[2]) =>
      /\ rc = 0
      /\ Denotes(w[2], out) = Denotes(w[1], x)
      /\ dnf_from(w[2], out) = cv
      /\ IsSubnormal(w[1], x) => (IsFinite(w[2], out) /\ ExpField(w[2], out) # 0)

\* the smallest half subnormal 0x0001 has become the double 2^-24
C4_Witness ==
  /\ Recomposed("half", "double")
  /\ x = {0}
  /\ rc = 0
  /\ ExpField("double", out) = 1023 - 24
  /\ MantField("double", out) = {}

\* C5: a finite double whose exponent is in the target's normal range and
\* whose mantissa has a 1 among the bits the target cannot hold (the low 42
\* for half, the low 29 for single) gives EDOM, and nothing is written.
NormalExps(fmt) == (1 - Bias(fmt))..Bias(fmt)
C5_PrecisionLoss ==
  \A t \in {"half", "single"} :
    ( /\ Recomposed("double", t)
      /\ IsFinite("double", x)
      /\ (ExpField("double", x) - 1023) \in NormalExps(t)
      /\ BitAnd(x, Bits(0, 51 - MantWidth(t))) # {} )
    => (rc = EDOM /\ out = {})

\* 1 + 2^-11 (0x3FF0020000000000) was refused by dnf_tohalf
C5_Witness ==
  /\ Recomposed("double", "half")
  /\ x = BitOr(Bits(52, 61), {41})
  /\ rc = EDOM

\* C6: a value that is not infinity/NaN and whose exponent is outside the
\* target's range (half -24..15, single -149..127, double -1074..1023) gives
\* ERANGE whatever its fraction holds, also when the fraction is too precise
\* for the target, and nothing is written.
MinExp(fmt) == CASE fmt = "half" -> -24 [] fmt = "single" -> -149 [] fmt = "double" -> -1074
MaxExp(fmt) == CASE fmt = "half" -> 15 [] fmt = "single" -> 127 [] fmt = "double" -> 1023
C6_RangeFirst ==
  \A t \in Formats :
    ( /\ pc = "recomposed"
      /\ tgt = t
      /\ cv.exp # INT_MAX
      /\ (cv.exp < MinExp(t) \/ cv.exp > MaxExp(t)) )
    => (rc = ERANGE /\ out = {})

\* a value both too large and too precise for a double was refused with ERANGE
C6_Witness ==
  /\ Recomposed("dnf__s", "double")
  /\ cv.exp = 1024
  /\ BitAnd(cv.frac, Bits(0, 10)) # {}
  /\ rc = ERANGE

\* C7: a NaN of any format recomposed to any format returns 0 exactly when
\* every payload bit below the target's mantissa width is zero, and then the
\* output is the all-ones exponent, the same sign and the top payload bits;
\* otherwise it returns EDOM.  (Payload bits are counted from the top of the
\* mantissa: 0 is the most significant.)
C7_NaNPayload ==
  \A s \in Formats, t \in Formats :
    (Recomposed(s, t) /\ IsNaN(s, x)) =>
      LET payload == {MantWidth(s) - 1 - i : i \in MantField(s, x)}
          fits == \A k \in payload : k < MantWidth(t)
      IN  /\ (rc = 0) <=> fits
          /\ (rc # 0) => (rc = EDOM)
          /\ (rc = 0) => out = BitOr(BitOr(ExpOnes(t), {MantWidth(t) - 1 - k : k \in payload}),
                                     IF SignOf(s, x) THEN {SignBit(t)} ELSE {})

\* C8: +inf and -inf of any format recompose to any format with return code 0
\* as the all-ones exponent field, a zero mantissa and the same sign.
C8_Infinity ==
  \A s \in Formats, t \in Formats :
    (Recomposed(s, t) /\ IsInf(s, x)) =>
      /\ rc = 0
      /\ out = BitOr(ExpOnes(t), IF SignOf(s, x) THEN {SignBit(t)} ELSE {})

\* the half -inf 0xFC00 has become the double 0xFFF0000000000000
C8_Witness ==
  /\ Recomposed("half", "double")
  /\ x = Bits(10, 15)
  /\ out = Bits(52, 63)

\* C9: dnf_fromdouble of +0.0 and -0.0 gives exp = 0, frac = 0 and the sign
\* of the input, and every dnf_to* of it returns 0 and writes only that sign
\* bit.
C9_SignedZero ==
  (src = "double" /\ x \in {{}, {63}}) =>
    /\ cv = [sign |-> (x = {63}), exp |-> 0, frac |-> {}]
    /\ pc = "recomposed" => (rc = 0 /\ out = IF x = {63} THEN {SignBit(tgt)} ELSE {})

\* -0.0 has become the half 0x8000
C9_Witness ==
  /\ Recomposed("double", "half")
  /\ x = {63}
  /\ out = {15}

\* C10: cbor_c.encode(0xE0, nil, d) emits info 25, 26 or 27 for the first of
\* dnf_tohalf, dnf_tosingle and the raw 8 bytes that succeeds, and
\* cbor_c.decode of that blob returns a double with exactly the bits of d.
FloatCall == call.type = 224 /\ call.value.nil /\ ~call.value2.nil
C10_SmallestExactFloat ==
  (pc \in {"encoded", "decoded"} /\ FloatCall) =>
    LET d == call.value2.n
        half == dnf_tohalf({}, dnf_fromdouble(d)).rc = 0
        single == dnf_tosingle({}, dnf_fromdouble(d)).rc = 0
        info == IF half THEN 25 ELSE IF single THEN 26 ELSE 27
        width == IF half THEN 2 ELSE IF single THEN 4 ELSE 8
    IN  /\ ret.err = "none"
        /\ Len(ret.blob) = 1 + width
        /\ ret.blob[1] = 224 + info
        /\ (pc = "decoded" /\ pos = 1) =>
             /\ dec.err = "none"
             /\ dec.ctype = 224
             /\ dec.info = info
             /\ dec.kind = "double"
             /\ dec.value = d
             /\ dec.pos2 = Len(ret.blob) + 1

\* C11: cbor_cL_pushvalue(t, v) emits the one byte t|v when v < 24, and
\* otherwise t|24, t|25, t|26 or t|27 followed by v in 1, 2, 4 or 8 bytes,
\* most significant byte first, the width being the least that holds v.
ByteOf(v, j) == ToInt(BitAnd(Shr(v, 8 * j), Bits(0, 7)))
LeastWidth(v) == CHOOSE n \in {1, 2, 4, 8} :
                   /\ v \subseteq Bits(0, 8 * n - 1)
                   /\ \A m \in {1, 2, 4, 8} : v \subseteq Bits(0, 8 * m - 1) => n <= m
InfoOfWidth(n) == CASE n = 1 -> 24 [] n = 2 -> 25 [] n = 4 -> 26 [] n = 8 -> 27
MinimalForm(t, v) ==
  IF v \subseteq Bits(0, 4) /\ ToInt(v) < 24
  THEN <<t + ToInt(v)>>
  ELSE <<t + InfoOfWidth(LeastWidth(v))>>
         \o [k \in 1..LeastWidth(v) |-> ByteOf(v, LeastWidth(v) - k)]
\* the calls of cbor_c.encode that end in cbor_cL_pushvalue
PushvalueCall ==
  /\ pc \in {"encoded", "decoded"}
  /\ call.type \in {0, 32, 64, 96, 128, 160, 192, 224}
  /\ ~call.value.nil
  /\ call.type = 224 => call.value.n \notin {FromInt(n, 8) : n \in 25..27}
C11_MinimalInteger ==
  PushvalueCall => ret = Pushed(MinimalForm(call.type, call.value.n))

\* 65536 as a negative integer took the 4-byte form 3A 00 01 00 00
C11_Witness ==
  /\ PushvalueCall
  /\ call.type = 32
  /\ call.value.n = {16}
  /\ ret.blob = <<58, 0, 1, 0, 0>>

\* C12: when the blobs of a sequence of (type, value) pairs with type 0x00,
\* 0x20 or 0xC0 are concatenated and decoded one after the other, starting at
\* pos 1 and going on at each pos2, the i-th cbor_c.decode returns the type,
\* the info of the encoded width and the value of the i-th pair, its pos2 is
\* pos + 1 + the number of extension bytes, and the last pos2 is the length
\* of the stream + 1.
ExtBytes(v) == IF v \subseteq Bits(0, 4) /\ ToInt(v) < 24 THEN 0 ELSE LeastWidth(v)
C12_SequentialDecode ==
  \A i \in 1..Len(results) :
    LET it == items[i]
        p == results[i].pos
        r == results[i].dec
    IN  /\ p = IF i = 1 THEN 1 ELSE results[i - 1].dec.pos2
        /\ r.err = "none"
        /\ r.ctype = it.type
        /\ r.info = IF ExtBytes(it.value) = 0 THEN ToInt(it.value)
                    ELSE InfoOfWidth(ExtBytes(it.value))
        /\ r.kind = "integer"
        /\ r.value = it.value
        /\ r.pos2 = p + 1 + ExtBytes(it.value)
        /\ i = Len(items) => r.pos2 = Len(stream) + 1

\* C13: the value decomposed from a finite non-zero half, single or double
\* has bit 63 of frac set and an exponent inside the source format's range;
\* for a subnormal source the exponent is below the minimum normal exponent,
\* and dnfi_normalize went round fewer than 64 times (once per step down of
\* the exponent), so it stopped on bit 63 and not on its bound.
Decomposed(s) == pc \in {"decomposed", "recomposed"} /\ src = s
C13_Normalized ==
  \A s \in Formats :
    (Decomposed(s) /\ IsFinite(s, x) /\ ~IsZero(s, x)) =>
      /\ 63 \in cv.frac
      /\ cv.exp \in MinExp(s)..MaxExp(s)
      /\ IsSubnormal(s, x) =>
           /\ cv.exp < 1 - Bias(s)
           /\ (1 - Bias(s)) - cv.exp < 64
      /\ ~IsSubnormal(s, x) => cv.exp >= 1 - Bias(s)

\* the smallest double subnormal was shifted up 52 times
C13_Witness ==
  /\ Decomposed("double")
  /\ x = {0}
  /\ cv.frac = {63}
  /\ cv.exp = -1074

\* C14: the value decomposed from a pattern whose exponent field is all ones
\* has its exponent reset to 0; it is an infinity exactly when the mantissa
\* field is zero, and the payload of a NaN is in the upper bits of frac as
\* shifted.
AllOnes(s) == Decomposed(s) /\ ~IsFinite(s, x)
PayloadShifted(s) ==
  /\ cv.frac = Shl(MantField(s, x), 63 - MantWidth(s), 64)
  /\ (cv.frac = {}) <=> IsInf(s, x)
  /\ cv.sign = SignOf(s, x)
C14_ExponentZero ==
  \A s \in Formats : AllOnes(s) => (cv.exp = 0 /\ PayloadShifted(s))

\* C14, amended: the exponent is the sentinel INT_MAX, not 0; the rest as
\* claimed: infinity has frac = 0, a NaN has its payload in frac from bit 62
\* downwards, and the sign is kept.
C14_ExponentSentinel ==
  \A s \in Formats : AllOnes(s) => (cv.exp = INT_MAX /\ PayloadShifted(s))

\* a negative single NaN with payload bits 22 and 0 has been decomposed
C14_Witness ==
  /\ Decomposed("single")
  /\ x = BitOr(Bits(23, 31), {22, 0})
  /\ cv = [sign |-> TRUE, exp |-> INT_MAX, frac |-> {62, 40}]

\* C15: a dnf_to* call leaves the caller's dnf__s as it was, whether it
\* succeeds or fails and whether or not it denormalized; so every call of the
\* cascade dnf_tohalf, dnf_tosingle, dnf_todouble returns what it returns when
\* it is the only call made on the freshly decomposed value.
dnf_to(fmt, p, v) ==
  CASE fmt = "half" -> dnf_tohalf(p, v)
    [] fmt = "single" -> dnf_tosingle(p, v)
    [] fmt = "double" -> dnf_todouble(p, v)
C15_InputNotMutated ==
  \A s \in Formats :
    (pc = "recomposed" /\ src = s) =>
      /\ cv = dnf_from(s, x)
      /\ [rc |-> rc, out |-> out] = dnf_to(tgt, {}, dnf_from(s, x))

\* 2^-15 * (1 + 2^-24): dnf_tohalf denormalized its copy and refused,
\* dnf_tosingle refused, and dnf_todouble, the third call, gave the double back
C15_Witness ==
  /\ Recomposed("double", "double")
  /\ calls = 3
  /\ cv.exp = -15
  /\ cv.frac = {63, 39}
  /\ rc = 0
  /\ out = x

\* C16: for a value decomposed from a half, single or double and any target
\* format, when the exponent is inside the target's range but below its
\* minimum normal exponent, dnfi_denormalize leaves frac non-zero, so its
\* assert holds: no dnf_to* call, and no encode or decode of a float, aborts.
SubnormalPath(t) ==
  /\ cv.exp # INT_MAX
  /\ cv.exp \in MinExp(t)..(-Bias(t))
  /\ cv.frac # {}
C16_AssertHolds ==
  /\ \A s \in Formats : \A t \in Formats :
       (Recomposed(s, t) /\ SubnormalPath(t)) =>
         /\ dnfi_denormalize(cv, 1 - Bias(t)).pv.frac # {}
         /\ dnfi_denormalize(cv, 1 - Bias(t)).asserted
         /\ rc # SIGABRT
  /\ (pc \in {"encoded", "decoded"} /\ FloatCall) => ret.err # "abort"
  /\ pc = "decoded" => dec.err # "abort"

\* the double 2^-149 becomes the smallest single subnormal: frac was halved
\* 23 times, from bit 63 down to bit 40
C16_Witness ==
  /\ Recomposed("double", "single")
  /\ x = Shl(FromInt(1023 - 149, 11), 52, 64)
  /\ cv.exp = -149
  /\ dnfi_denormalize(cv, -126).pv.frac = {40}
  /\ rc = 0
  /\ out = {0}

\* C17: for every blob and every position pos >= 1, cbor_clua_decode raises
\* "no input", "no more input" or "invalid data", or else reads only bytes
\* at positions 1..#blob; and at pos = #blob + 1 it raises an error.
C17_InsideBlob ==
  (pc = "decoded" /\ pos >= 1) =>
    /\ \/ dec.err \in {"no input", "no more input", "invalid data"}
       \/ cbor_clua_decode_reads(ret.blob, pos) \subseteq 1..Len(ret.blob)
    /\ pos = Len(ret.blob) + 1 => dec.err # "none"

\* C18: for every double d that dnf_tohalf accepts with half pattern h,
\* cbor5.packf(d) returns the 3 bytes 0xF9, h >> 8, h mod 256.
C18_HalfLayout ==
  pc = "packed" =>
    LET r == dnf_tohalf({}, dnf_fromdouble(packf.d))
    IN  r.rc = 0 =>
          /\ packf.ret.err = "none"
          /\ packf.ret.blob = <<249, ToInt(Shr(r.out, 8)) % 256, ToInt(r.out) % 256>>

====
